---- MODULE Spec2Model ----
(***************************************************************************)
(* Indoor way-finding backend: the graph store (NavigationGraph), the      *)
(* Dijkstra search (Pathfinder.shortest_path) and the navigation service   *)
(* (PathService), as a state machine.                                      *)
(***************************************************************************)
EXTENDS Integers, Sequences, FiniteSets, TLC

VARIABLES
    nodes,       \* NavigationGraph.nodes: insertion-ordered dict, as a sequence of records
    edges,       \* NavigationGraph.edges: qr_id -> list of {to, distance}
    pathfinder,  \* whether the PathService object has a `pathfinder` attribute
    pc,          \* "idle", or "search" while shortest_path's while-loop runs
    caller,      \* who called shortest_path: "Pathfinder" (directly) or "PathService"
    call,        \* the arguments of the call in flight
    end_qr,      \* shortest_path's local end_qr
    heap,        \* shortest_path's local heap (kept in heap order: least entry first)
    visited,     \* shortest_path's local visited
    ret,         \* the last completed call and what it returned or raised
    added        \* history: per id, the landmark of the latest add_node call (<<>>: never called)

vars == <<nodes, edges, pathfinder, pc, caller, call, end_qr, heap, visited, ret, added>>

----------------------------------------------------------------------------
(* Bounds of the exploration. *)
MaxNodes == 2
MaxEdges == 3

----------------------------------------------------------------------------
(* Strings.  Python compares str by code point, so upper case sorts before *)
(* lower case and a prefix before its extensions.                          *)
StrOrder ==
    << "", "A", "Cafeteria", "Elevator", "Hallway Junction", "Main Entrance",
       "a", "b", "c", "cafeteria", "elevator", "entrance", "hallway junction",
       "hallway1", "main entrance" >>

Strings == {StrOrder[i] : i \in 1..Len(StrOrder)}

StrRank(s) == CHOOSE i \in 1..Len(StrOrder) : StrOrder[i] = s

StrLess(s, t) == StrRank(s) < StrRank(t)

\* str.lower()
Lower(s) ==
    CASE s = "A" -> "a"
      [] s = "Cafeteria" -> "cafeteria"
      [] s = "Elevator" -> "elevator"
      [] s = "Hallway Junction" -> "hallway junction"
      [] s = "Main Entrance" -> "main entrance"
      [] OTHER -> s

\* list < list (lexicographic, a proper prefix is smaller)
ListLess(p, q) ==
    LET n == IF Len(p) < Len(q) THEN Len(p) ELSE Len(q)
        D == {i \in 1..n : p[i] # q[i]}
    IN  IF D = {} THEN Len(p) < Len(q)
        ELSE \A j \in D : (\A i \in D : j <= i) => StrLess(p[j], q[j])

\* tuple < tuple for the heap entries (cost, current, path)
EntryLess(e, f) ==
    \/ e.cost < f.cost
    \/ /\ e.cost = f.cost
       /\ \/ StrLess(e.node, f.node)
          \/ e.node = f.node /\ ListLess(e.path, f.path)

Min(S) == CHOOSE m \in S : \A n \in S : m <= n

----------------------------------------------------------------------------
(* NavigationGraph *)

NoEdges == [k \in {} |-> <<>>]

\* index of qr_id in the dict, 0 when absent
KeyIndex(N, qr_id) ==
    LET I == {i \in 1..Len(N) : N[i].id = qr_id}
    IN  IF I = {} THEN 0 ELSE Min(I)

\* self.nodes[qr_id] = {...}: a new key goes last, an old key keeps its place
add_node_keep(N, qr_id, x, y, landmark) ==
    IF KeyIndex(N, qr_id) = 0
    THEN Append(N, [id |-> qr_id, x |-> x, y |-> y, landmark |-> landmark])
    ELSE N

add_node(N, qr_id, x, y, landmark) ==
    LET r == [id |-> qr_id, x |-> x, y |-> y, landmark |-> landmark]
        i == KeyIndex(N, qr_id)
    IN  IF i = 0 THEN Append(N, r) ELSE [N EXCEPT ![i] = r]

\* if qr not in self.edges: self.edges[qr] = []; self.edges[qr].append(...)
append_edge(E, from, to, distance) ==
    [k \in DOMAIN E \cup {from} |->
        IF k = from
        THEN Append(IF k \in DOMAIN E THEN E[k] ELSE <<>>,
                    [to |-> to, distance |-> distance])
        ELSE E[k]]

add_edge_oneway(E, qr1, qr2, distance) == append_edge(E, qr1, qr2, distance)

add_edge(E, qr1, qr2, distance) ==
    append_edge(append_edge(E, qr1, qr2, distance), qr2, qr1, distance)

\* self.edges.get(qr_id, [])
get_neighbors(E, qr_id) == IF qr_id \in DOMAIN E THEN E[qr_id] ELSE <<>>

----------------------------------------------------------------------------
(* Pathfinder.shortest_path *)

\* for qr_id, data in nodes.items(): if data["landmark"] == end_landmark: ... break
\* An Optional is a sequence: <<>> is None, <<id>> the id found.
find_exact(N, end_landmark) ==
    LET I == {i \in 1..Len(N) : N[i].landmark = end_landmark}
    IN  IF I = {} THEN <<>> ELSE <<N[Min(I)].id>>

\* `not end_qr`: None and the empty string are both falsy
Falsy(opt) == opt = <<>> \/ opt[1] = ""

\* heap = [(0, start_qr, [])]
InitialHeap_withStart(start_qr) == <<[cost |-> 0, node |-> start_qr, path |-> <<start_qr>>]>>

InitialHeap(start_qr) == <<[cost |-> 0, node |-> start_qr, path |-> <<>>]>>

\* heapq.heappush: the heap keeps its least entry first
heappush_append(h, e) == Append(h, e)

heappush(h, e) ==
    LET k == Cardinality({i \in 1..Len(h) : EntryLess(h[i], e)})
    IN  SubSeq(h, 1, k) \o <<e>> \o SubSeq(h, k + 1, Len(h))

\* heapq.heappop: the entry returned, and the heap left
HeapTop(h) == Head(h)

HeapRest_peek(h) == h

HeapRest(h) == Tail(h)

\* new_path = path + [current]
NewPath_prepend(path, current) == <<current>> \o path

NewPath(path, current) == Append(path, current)

\* for neighbor in get_neighbors(current): heappush(heap, (cost + distance, to, new_path))
RECURSIVE PushNeighbors(_, _, _, _)
PushNeighbors(h, cost, nbrs, new_path) ==
    IF nbrs = <<>> THEN h
    ELSE LET pushed == heappush(h, [cost |-> cost + Head(nbrs).distance,
                                    node |-> Head(nbrs).to,
                                    path |-> new_path])
         \* h2 is the heap after this push, computed once before the next push
         IN  CHOOSE r \in {PushNeighbors(h2, cost, Tail(nbrs), new_path) : h2 \in {pushed}} : TRUE

----------------------------------------------------------------------------
(* PathService *)

\* if data["landmark"].lower() == end_landmark.lower(): end_qr = qr_id; break
find_landmark(N, end_landmark) ==
    LET I == {i \in 1..Len(N) : Lower(N[i].landmark) = Lower(end_landmark)}
    IN  IF I = {} THEN <<>> ELSE <<N[Min(I)].id>>

\* self.graph.nodes.get(qr_id): <<>> is None, <<record>> the node found
nodes_get(N, qr_id) ==
    IF KeyIndex(N, qr_id) = 0 THEN <<>> ELSE <<N[KeyIndex(N, qr_id)]>>

----------------------------------------------------------------------------
(* The calls and what they return.  `val` is always a sequence: a path, a  *)
(* neighbor list, or the one landmark returned.                            *)

NoCall == [op |-> "none", a1 |-> "", a2 |-> ""]
NoRet == [op |-> "none", a1 |-> "", a2 |-> "", out |-> "none", val |-> <<>>]

Result(op, a1, a2, out, val) ==
    [op |-> op, a1 |-> a1, a2 |-> a2, out |-> out, val |-> val]

NeverAdded == [s \in Strings |-> <<>>]

Init ==
    /\ nodes = <<>>
    /\ edges = NoEdges
    /\ pathfinder = FALSE
    /\ pc = "idle"
    /\ caller = "none"
    /\ call = NoCall
    /\ end_qr = ""
    /\ heap = <<>>
    /\ visited = {}
    /\ ret = NoRet
    /\ added = NeverAdded

search_locals == <<pc, caller, call, end_qr, heap, visited>>

\* number of add_edge calls so far (each appends two records)
EdgeCalls(E) ==
    LET RECURSIVE Sum(_)
        Sum(K) == IF K = {} THEN 0
                  ELSE LET k == CHOOSE k \in K : TRUE
                       IN  Len(E[k]) + Sum(K \ {k})
    IN  Sum(DOMAIN E) \div 2

\* NavigationGraph.add_node
AddNode(qr_id, x, y, landmark) ==
    /\ pc = "idle"
    /\ Len(nodes) < MaxNodes \/ (KeyIndex(nodes, qr_id) # 0 /\ Len(nodes) <= MaxNodes)
    /\ nodes' = add_node(nodes, qr_id, x, y, landmark)
    /\ added' = [added EXCEPT ![qr_id] = <<landmark>>]
    /\ ret' = NoRet
    /\ UNCHANGED <<edges, pathfinder, search_locals>>

\* NavigationGraph.add_edge
AddEdge(qr1, qr2, distance) ==
    /\ pc = "idle"
    /\ EdgeCalls(edges) < MaxEdges
    /\ edges' = add_edge(edges, qr1, qr2, distance)
    /\ ret' = NoRet
    /\ UNCHANGED <<nodes, added, pathfinder, search_locals>>

\* NavigationGraph.get_neighbors
GetNeighbors(qr_id) ==
    /\ pc = "idle"
    /\ ret' = Result("get_neighbors", qr_id, "", "ok", get_neighbors(edges, qr_id))
    /\ UNCHANGED <<nodes, edges, added, pathfinder, search_locals>>

\* demo_data.init_demo_graph, as user_routes runs it on a fresh graph
DemoNodes ==
    add_node(add_node(add_node(add_node(<<>>,
        "entrance", 0, 0, "Main Entrance"),
        "hallway1", 10, 0, "Hallway Junction"),
        "cafeteria", 10, 15, "Cafeteria"),
        "elevator", 20, 0, "Elevator")

DemoEdges ==
    add_edge(add_edge(add_edge(NoEdges,
        "entrance", "hallway1", 10),
        "hallway1", "cafeteria", 15),
        "hallway1", "elevator", 10)

InitDemoGraph ==
    /\ pc = "idle"
    /\ nodes = <<>> /\ edges = NoEdges
    /\ nodes' = DemoNodes
    /\ edges' = DemoEdges
    /\ added' = [s \in Strings |->
                    IF KeyIndex(DemoNodes, s) = 0 THEN <<>>
                    ELSE <<DemoNodes[KeyIndex(DemoNodes, s)].landmark>>]
    /\ ret' = NoRet
    /\ UNCHANGED <<pathfinder, search_locals>>

\* PathService.get_landmark
GetLandmark(qr_id) ==
    /\ pc = "idle"
    /\ LET node == nodes_get(nodes, qr_id)
       IN  ret' = IF node = <<>>
                  THEN Result("get_landmark", qr_id, "", "NotFoundMarker", <<>>)
                  ELSE Result("get_landmark", qr_id, "", "ok", <<node[1].landmark>>)
    /\ UNCHANGED <<nodes, edges, added, pathfinder, search_locals>>

\* What shortest_path's caller does with the result: Pathfinder's own caller
\* gets the list; PathService.get_shortest_path raises on an empty one.
Returned(who, c, path) ==
    IF who = "Pathfinder" THEN Result("shortest_path", c.a1, c.a2, "ok", path)
    ELSE IF path = <<>>
         THEN Result("get_shortest_path", c.a1, c.a2, "NoRouteFound", <<>>)
         ELSE Result("get_shortest_path", c.a1, c.a2, "ok", path)

\* Pathfinder.shortest_path up to its while-loop
EnterSearch(who, c, start_qr, end_landmark) ==
    LET found == find_exact(nodes, end_landmark)
    IN  IF Falsy(found)
        THEN /\ ret' = Returned(who, c, <<>>)
             /\ UNCHANGED search_locals
        ELSE /\ pc' = "search"
             /\ caller' = who
             /\ call' = c
             /\ end_qr' = found[1]
             /\ heap' = InitialHeap(start_qr)
             /\ visited' = {}
             /\ ret' = NoRet

\* return from shortest_path
Return(path) ==
    /\ ret' = Returned(caller, call, path)
    /\ pc' = "idle"
    /\ caller' = "none"
    /\ call' = NoCall
    /\ end_qr' = ""
    /\ heap' = <<>>
    /\ visited' = {}

\* a direct call of Pathfinder.shortest_path
ShortestPath(start_qr, end_landmark) ==
    /\ pc = "idle"
    /\ EnterSearch("Pathfinder", [op |-> "shortest_path", a1 |-> start_qr, a2 |-> end_landmark],
                   start_qr, end_landmark)
    /\ UNCHANGED <<nodes, edges, added, pathfinder>>

\* one turn of shortest_path's while-loop, or the return after it
SearchStep ==
    /\ pc = "search"
    /\ IF heap = <<>>
       THEN Return(<<>>)
       ELSE LET top == HeapTop(heap)
                rest == HeapRest(heap)
                new_path == NewPath(top.path, top.node)
            IN  IF top.node \in visited
                THEN /\ heap' = rest
                     /\ UNCHANGED <<pc, caller, call, end_qr, visited, ret>>
                ELSE IF top.node = end_qr
                THEN Return(new_path)
                ELSE /\ visited' = visited \cup {top.node}
                     /\ heap' = PushNeighbors(rest, top.cost,
                                              get_neighbors(edges, top.node), new_path)
                     /\ UNCHANGED <<pc, caller, call, end_qr, ret>>
    /\ UNCHANGED <<nodes, edges, added, pathfinder>>

\* PathService.get_shortest_path
GetShortestPath(start_qr, end_landmark) ==
    /\ pc = "idle"
    /\ LET found == find_landmark(nodes, end_landmark)
           c == [op |-> "get_shortest_path", a1 |-> start_qr, a2 |-> end_landmark]
       IN  IF Falsy(found)
           THEN /\ ret' = Result("get_shortest_path", start_qr, end_landmark,
                                 "NotFoundLandmark", <<>>)
                /\ UNCHANGED search_locals
           ELSE IF ~pathfinder
           THEN /\ ret' = Result("get_shortest_path", start_qr, end_landmark,
                                 "AttributeError", <<>>)
                /\ UNCHANGED search_locals
           ELSE EnterSearch("PathService", c, start_qr, found[1])
    /\ UNCHANGED <<nodes, edges, added, pathfinder>>

\* The service given its Pathfinder over the same graph.  PathService.__init__
\* sets no `pathfinder`; the system overview has the service wrap the store and
\* a Pathfinder instance, which is this step.
AttachPathfinder ==
    /\ pc = "idle"
    /\ ~pathfinder
    /\ pathfinder' = TRUE
    /\ ret' = NoRet
    /\ UNCHANGED <<nodes, edges, added, search_locals>>

----------------------------------------------------------------------------
(* Inputs *)
Coords == {0}

\* the graph store alone
StoreIds == {"a", "b"}
StoreLandmarks == {"A", "a"}
StoreEdgeIds == {"a", "b"}
StoreDistances == {-1, 1}

StoreNext ==
    \/ \E q \in StoreIds, x \in Coords, y \in Coords, l \in StoreLandmarks : AddNode(q, x, y, l)
    \/ \E q1 \in StoreEdgeIds, q2 \in StoreEdgeIds, d \in StoreDistances : AddEdge(q1, q2, d)
    \/ \E q \in StoreIds : GetNeighbors(q)
    \/ \E q \in StoreIds : GetLandmark(q)

StoreSpec == Init /\ [][StoreNext]_vars

\* the service over the store
Ids == {"", "a", "b"}
Landmarks == {"A", "a"}
Distances == {1}
Names == {"A", "a", "b"}

Next ==
    \/ \E q \in Ids, x \in Coords, y \in Coords, l \in Landmarks : AddNode(q, x, y, l)
    \/ \E q1 \in Ids, q2 \in Ids, d \in Distances : AddEdge(q1, q2, d)
    \/ AttachPathfinder
    \/ \E q \in Ids : GetNeighbors(q)
    \/ \E s \in Ids, n \in Names : ShortestPath(s, n)
    \/ \E s \in Ids, n \in Names : GetShortestPath(s, n)
    \/ SearchStep

Spec == Init /\ [][Next]_vars

\* the service as user_routes builds it, over the demo graph
DemoIds == {"entrance", "hallway1", "cafeteria", "elevator"}
DemoNames == {"Cafeteria", "cafeteria", "Elevator", "Main Entrance"}

DemoNext ==
    \/ InitDemoGraph
    \/ AttachPathfinder
    \/ \E q \in DemoIds \cup {"a"} : GetLandmark(q)
    \/ \E s \in DemoIds, n \in DemoNames : ShortestPath(s, n)
    \/ \E s \in DemoIds, n \in DemoNames : GetShortestPath(s, n)
    \/ SearchStep

DemoSpec == Init /\ [][DemoNext]_vars

\* the search alone
SearchVertices == {"a", "b", "c"}
SearchTargets == {"b"}
SearchLandmarks == {"A"}
SearchStarts == {"a", "b", "c"}
SearchDistances == {-1, 0, 1}

SearchNext ==
    \/ \E q \in SearchTargets, x \in Coords, y \in Coords, l \in SearchLandmarks : AddNode(q, x, y, l)
    \/ \E q1 \in SearchVertices, q2 \in SearchVertices, d \in SearchDistances : AddEdge(q1, q2, d)
    \/ \E s \in SearchStarts, n \in SearchLandmarks : ShortestPath(s, n)
    \/ SearchStep

SearchSpec == Init /\ [][SearchNext]_vars

\* the search loop under its scheduling: shortest_path runs to its return
LoopDistances == {-1, 0}

LoopNext ==
    \/ \E q \in SearchTargets, x \in Coords, y \in Coords, l \in SearchLandmarks : AddNode(q, x, y, l)
    \/ \E q1 \in SearchVertices, q2 \in SearchVertices, d \in LoopDistances : AddEdge(q1, q2, d)
    \/ \E s \in SearchStarts, n \in SearchLandmarks : ShortestPath(s, n)
    \/ SearchStep

LoopSpec == Init /\ [][LoopNext]_vars /\ WF_vars(SearchStep)

----------------------------------------------------------------------------
(* What the properties speak of: routes in the graph as it stands. *)

\* the first node, in insertion order, that Match accepts (<<>> when none)
FirstNode(Match(_)) ==
    LET I == {i \in 1..Len(nodes) : Match(nodes[i])}
    IN  IF I = {} THEN <<>> ELSE <<nodes[Min(I)].id>>

\* the node a completed shortest_path call searched for
SearchTarget(r) == LET M(n) == n.landmark = r.a2 IN FirstNode(M)

Searched(r) ==
    /\ r.op = "shortest_path"
    /\ SearchTarget(r) # <<>>
    /\ SearchTarget(r)[1] # ""

HasEdge(a, b) ==
    /\ a \in DOMAIN edges
    /\ \E i \in 1..Len(edges[a]) : edges[a][i].to = b

\* the least distance among the parallel records from a to b
Weight(a, b) == Min({edges[a][i].distance : i \in {j \in 1..Len(edges[a]) : edges[a][j].to = b}})

IsRoute(p, s, t) ==
    /\ p # <<>>
    /\ p[1] = s
    /\ p[Len(p)] = t
    /\ \A i \in 1..(Len(p) - 1) : HasEdge(p[i], p[i + 1])

RECURSIVE RouteCost(_)
RouteCost(p) ==
    IF Len(p) < 2 THEN 0 ELSE Weight(p[1], p[2]) + RouteCost(Tail(p))

\* every sequence of ids of the graph (and s) of up to one more than their number
Walks(s) ==
    LET V == DOMAIN edges \cup {s}
    IN  UNION {[1..n -> V] : n \in 1..(Cardinality(V) + 1)}

NonNegative ==
    \A a \in DOMAIN edges : \A i \in 1..Len(edges[a]) : edges[a][i].distance >= 0

NoRepeat(p) == \A i, j \in 1..Len(p) : p[i] = p[j] => i = j

RouteShapeC3 ==
    (ret.op = "shortest_path" /\ ret.val # <<>>)
    => /\ Searched(ret)
       /\ IsRoute(ret.val, ret.a1, SearchTarget(ret)[1])
       /\ NoRepeat(ret.val)

WitnessC3 ==
    /\ ret.op = "shortest_path"
    /\ Len(ret.val) = 3
    /\ \E a \in DOMAIN edges : HasEdge(a, a)

SearchTerminatesC10 ==
    /\ [](pc = "search" => <>(pc = "idle"))
    /\ [][(pc = "search" /\ heap # <<>>) =>
            IF Head(heap).node \in visited
            THEN visited' = visited /\ heap' = Tail(heap) /\ pc' = "search"
            ELSE \/ pc' = "idle"
                 \/ /\ visited' = visited \cup {Head(heap).node}
                    /\ Len(heap') = Len(heap) - 1 + Len(get_neighbors(edges, Head(heap).node))
         ]_vars

\* a search about to discard an entry for a finalized id
WitnessC10 ==
    /\ pc = "search" /\ heap # <<>>
    /\ Head(heap).node \in visited
    /\ \E a \in DOMAIN edges : HasEdge(a, a)

----------------------------------------------------------------------------
(* The graph store *)

\* how many records (to: b, distance: d) the adjacency list of a holds in E
CountIn(E, a, b, d) ==
    Cardinality({i \in 1..Len(get_neighbors(E, a)) :
                    get_neighbors(E, a)[i] = [to |-> b, distance |-> d]})

\* C4: the adjacency relation is symmetric, record for record, and every
\* add_edge call adds one more record each way (two on a self-loop) whatever
\* records are there already.
SymmetricC4 ==
    /\ [](\A a \in DOMAIN edges : \A i \in 1..Len(edges[a]) :
            CountIn(edges, a, edges[a][i].to, edges[a][i].distance)
              = CountIn(edges, edges[a][i].to, a, edges[a][i].distance))
    /\ [][\A q1 \in StoreEdgeIds, q2 \in StoreEdgeIds, d \in StoreDistances :
            AddEdge(q1, q2, d) =>
              /\ CountIn(edges', q1, q2, d)
                   = CountIn(edges, q1, q2, d) + (IF q1 = q2 THEN 2 ELSE 1)
              /\ CountIn(edges', q2, q1, d)
                   = CountIn(edges, q2, q1, d) + (IF q1 = q2 THEN 2 ELSE 1)
         ]_vars

\* add_edge called twice on the same pair with the same distance
WitnessC4 ==
    \E a \in DOMAIN edges, b \in DOMAIN edges, d \in StoreDistances :
        a # b /\ CountIn(edges, a, b, d) = 2 /\ CountIn(edges, b, a, d) = 2

\* C7: get_landmark raises for exactly the ids add_node was never called with,
\* and otherwise returns the landmark of the latest add_node call for the id.
ResolveLandmarkC7 ==
    ret.op = "get_landmark" =>
        IF added[ret.a1] = <<>>
        THEN ret.out = "NotFoundMarker"
        ELSE ret.out = "ok" /\ ret.val = added[ret.a1]

\* the landmark of a node that is not the only one with its landmark
WitnessC7 ==
    /\ ret.op = "get_landmark" /\ ret.out = "ok"
    /\ Len(nodes) = 2
    /\ nodes[1].landmark = nodes[2].landmark
    /\ ret.a1 = nodes[1].id

\* C8: no neighbor record has a negative distance.
NoNegativeDistanceC8 ==
    \A a \in DOMAIN edges : \A i \in 1..Len(edges[a]) : edges[a][i].distance >= 0

----------------------------------------------------------------------------
(* The service *)

\* the first node, in insertion order, whose landmark is `name` ignoring case
LandmarkNode(name) == LET M(n) == Lower(n.landmark) = Lower(name) IN FirstNode(M)

Isolated(id) == get_neighbors(edges, id) = <<>>

\* C2: when the first node whose landmark matches the name ignoring case is
\* reachable from the start, get_shortest_path returns a path from the start
\* to that node; on the demo graph, from "entrance" to "Cafeteria" in either
\* case it returns entrance, hallway1, cafeteria.
RouteToLandmarkC2 ==
    /\ (/\ ret.op = "get_shortest_path"
        /\ LandmarkNode(ret.a2) # <<>>
        /\ \E w \in Walks(ret.a1) : IsRoute(w, ret.a1, LandmarkNode(ret.a2)[1]))
       => /\ ret.out = "ok"
          /\ ret.val # <<>>
          /\ ret.val[1] = ret.a1
          /\ ret.val[Len(ret.val)] = LandmarkNode(ret.a2)[1]
    /\ (/\ ret.op = "get_shortest_path"
        /\ nodes = DemoNodes /\ edges = DemoEdges
        /\ ret.a1 = "entrance" /\ Lower(ret.a2) = "cafeteria")
       => ret.out = "ok" /\ ret.val = <<"entrance", "hallway1", "cafeteria">>

\* C5: a node without edges has no neighbors, the search from another id to it
\* returns nothing, and get_shortest_path from another id to its landmark
\* raises "no path found".
IsolatedNodeC5 ==
    /\ (ret.op = "get_neighbors" /\ KeyIndex(nodes, ret.a1) # 0 /\ Isolated(ret.a1))
       => ret.out = "ok" /\ ret.val = <<>>
    /\ (Searched(ret) /\ Isolated(SearchTarget(ret)[1]) /\ SearchTarget(ret)[1] # ret.a1)
       => ret.val = <<>>
    /\ (/\ ret.op = "get_shortest_path"
        /\ \E i \in 1..Len(nodes) :
              /\ Isolated(nodes[i].id)
              /\ nodes[i].id # ret.a1
              /\ nodes[i].landmark = ret.a2)
       => ret.out = "NoRouteFound"

\* C6: get_shortest_path raises "landmark not found" exactly when no node's
\* landmark equals the name ignoring case.
LandmarkNotFoundC6 ==
    ret.op = "get_shortest_path" =>
        (ret.out = "NotFoundLandmark"
            <=> ~ \E i \in 1..Len(nodes) : Lower(nodes[i].landmark) = Lower(ret.a2))

====
